---- MODULE Spec2Model ----
(***************************************************************************)
(* Model of the board client in frontend/app/page.tsx: the WebSocket       *)
(* effect of Home (connect, onmessage, onclose with its reconnect timer,   *)
(* effect cleanup), loadBoard (the reconciliation pull: two requests, then *)
(* setBoard), handleWebSocketMessage, and the user actions createCard,     *)
(* updateCard, deleteCard, onDragEnd and addComment.                       *)
(*                                                                         *)
(* A board snapshot is a record [ver, cols]: the columns with their cards  *)
(* in order, and the version of the server state it was read from (1, 2,   *)
(* ...); NotLoaded stands for the initial null of the board state.         *)
(***************************************************************************)
EXTENDS Integers, Sequences, FiniteSets, TLC

\* ---- bounds of the model ----
MaxInFlight == 2   \* pulls that may be in flight at once
MaxVer == 2        \* versions the server state goes through
MaxSocks == 3      \* WebSocket objects created during a run
MaxCalls == 1      \* user actions invoked during a run
MaxSessions == 1   \* card modals opened during a run

\* ---- values ----
Recognized == {"card_created", "card_updated", "card_moved",
               "card_deleted", "column_created", "comment_created"}
Unrecognized == {"user_joined"}
Kinds == Recognized \cup Unrecognized
\* wire data: a JSON object with the type k (written k), or text that is
\* not JSON
Malformed == {"{not json"}
Wire == Kinds \cup Malformed
NoEvent == [sock |-> 0, kind |-> "none", ver |-> 0, handled |-> FALSE,
            busy |-> FALSE, started |-> FALSE, uncaught |-> FALSE,
            afterFail |-> FALSE]

Cols == {"Todo", "Doing"}
CardIds == {"c1", "c2"}
Titles == {"Fix bug", "Write docs"}
Positions == 0..1
username == "Guest_1"

Card(id, col, title) ==
  [id |-> id, column_id |-> col, title |-> title, description |-> "",
   priority |-> "medium"]
NullCard == [id |-> "null"]

InitCols ==
  [c \in Cols |-> IF c = "Todo"
                  THEN <<Card("c1", "Todo", "Fix bug"),
                         Card("c2", "Todo", "Write docs")>>
                  ELSE <<>>]
NotLoaded == [ver |-> 0, cols |-> [c \in Cols |-> <<>>]]

RemoveAt(s, i) == SubSeq(s, 1, i - 1) \o SubSeq(s, i + 1, Len(s))
InsertAt(s, i, x) == SubSeq(s, 1, i - 1) \o <<x>> \o SubSeq(s, i, Len(s))
Min(a, b) == IF a < b THEN a ELSE b

CardsOf(cols) == UNION {{cols[c][i] : i \in 1..Len(cols[c])} : c \in Cols}

\* ---- the server of record: one edit of the board ----
Touch == [e |-> "touch", id |-> "", col |-> "", pos |-> 0, title |-> ""]
Without(cols, id) ==
  [c \in Cols |-> LET Keep(x) == x.id # id IN SelectSeq(cols[c], Keep)]
ApplyEdit(cols, e) ==
  CASE e.e = "touch" -> cols
    [] e.e = "delete" -> Without(cols, e.id)
    [] e.e = "retitle" ->
         [c \in Cols |-> [i \in 1..Len(cols[c]) |->
            IF cols[c][i].id = e.id THEN [cols[c][i] EXCEPT !.title = e.title]
            ELSE cols[c][i]]]
    [] e.e = "move" ->
         LET card == CHOOSE x \in CardsOf(cols) : x.id = e.id
             rest == Without(cols, e.id)
         IN [rest EXCEPT ![e.col] =
               InsertAt(rest[e.col], Min(e.pos, Len(rest[e.col])) + 1,
                        [card EXCEPT !.column_id = e.col])]
Edits(cols) ==
  {Touch}
  \cup {[e |-> "delete", id |-> x.id, col |-> "", pos |-> 0, title |-> ""] :
          x \in CardsOf(cols)}
  \cup {[e |-> "retitle", id |-> x.id, col |-> "", pos |-> 0, title |-> t] :
          x \in CardsOf(cols), t \in Titles}
  \cup {[e |-> "move", id |-> x.id, col |-> c, pos |-> n, title |-> ""] :
          x \in CardsOf(cols), c \in Cols, n \in Positions}

NoDest == [droppableId |-> "null", index |-> 0]
NoBuf == [title |-> "", description |-> "", priority |-> ""]
NoRet == [op |-> "none", req |-> "none", threw |-> FALSE, ret |-> "none"]

VARIABLES
  socks,      \* the WebSocket objects created so far, in creation order
  ws,         \* React state ws: index of the socket last passed to setWs
  timers,     \* pending reconnect timers (setTimeout of onclose)
  mounted,    \* Home is mounted (the effect cleanup has not run)
  server,     \* the board on the server: [ver, cols]
  pulls,      \* loadBoard calls in flight, in the order they were started
  board,      \* React state board: the snapshot store
  searchQuery,    \* React state searchQuery
  selectedCard,   \* React state selectedCard (a card record or NullCard)
  showCardModal,  \* React state showCardModal
  sess,       \* number of CardModal instances mounted so far
  buf,        \* CardModal state title, description, priority
  newComment, \* CardModal state newComment
  comments,   \* CardModal state comments: length of the list shown
  fetches,    \* loadComments calls in flight
  serverComments, \* per card, the number of comments on the server
  calls,      \* user actions awaiting the response of their request
  nCalls,     \* user actions invoked so far
  lastRet,    \* observer: the last user action that returned to its caller
  lastEv,     \* observer: the most recent wire message and what it caused
  lastPull,   \* observer: snapshot of the last pull that called setBoard
  pullFailed, \* observer: some pull has ended without a snapshot
  seen        \* observer: the latest version the store has ever held

transport == <<socks, ws, timers, mounted>>
modal == <<selectedCard, showCardModal, sess, buf, newComment, comments>>
thread == <<fetches, serverComments>>
actions == <<calls, nCalls, lastRet>>
ui == <<searchQuery, modal, thread, actions>>
obs == <<lastEv, lastPull, pullFailed, seen>>
vars == <<transport, server, pulls, board, ui, obs>>

\* a reconciliation pull (one started by a change event) is in flight
Reloading == \E p \in 1..Len(pulls) : pulls[p].origin = "event"

\* ---- loadBoard: start of the call, up to the first await ----
loadBoard(ps, origin) ==
  Append(ps, [pc |-> "list", snap |-> NotLoaded, origin |-> origin])

\* (a variant whose default case reloads as well)
handleWebSocketMessage_anyType(ps, kind) == loadBoard(ps, "event")

\* (a variant in which the reconciler stays failed after a failed pull)
handleWebSocketMessage_failedState(ps, kind) ==
  IF kind \in Recognized /\ ~pullFailed THEN loadBoard(ps, "event") ELSE ps

\* ---- handleWebSocketMessage: the pulls in flight after the handler ----
handleWebSocketMessage(ps, kind) ==
  IF kind \in Recognized THEN loadBoard(ps, "event") ELSE ps

\* ---- the handlers the effect installs on a socket ----
\* JSON.parse(event.data) throws a SyntaxError on text that is not JSON
ParseThrows(data) == data \in Malformed

\* websocket.onmessage: the pulls in flight after the handler; a throw of
\* JSON.parse ends it before handleWebSocketMessage is called
onmessage(ps, data) ==
  IF ParseThrows(data) THEN ps ELSE handleWebSocketMessage(ps, data)

\* websocket.onmessage has no try/catch: what JSON.parse throws leaves the
\* handler uncaught
Uncaught(data) == ParseThrows(data)

\* websocket.onclose: the timers pending after a close event on socket s
onclose(s, t) == IF s.wired THEN t + 1 ELSE t

\* the socket the reconnect timer creates
NewWebsocket == [state |-> "connecting", wired |-> FALSE, explicit |-> FALSE]

Init ==
  /\ socks = <<[state |-> "connecting", wired |-> TRUE, explicit |-> FALSE]>>
  /\ ws = 1
  /\ timers = 0
  /\ mounted = TRUE
  /\ server = [ver |-> 1, cols |-> InitCols]
  /\ pulls = loadBoard(<<>>, "init")
  /\ board = NotLoaded
  /\ searchQuery = ""
  /\ selectedCard = NullCard
  /\ showCardModal = FALSE
  /\ sess = 0
  /\ buf = NoBuf
  /\ newComment = ""
  /\ comments = 0
  /\ fetches = <<>>
  /\ serverComments = [c \in CardIds |-> 0]
  /\ calls = <<>>
  /\ nCalls = 0
  /\ lastRet = NoRet
  /\ lastEv = NoEvent
  /\ lastPull = NotLoaded
  /\ pullFailed = FALSE
  /\ seen = 0

\* ---- transport ----
\* the connection of socket i is established; onopen only logs
SockOpen(i) ==
  /\ socks[i].state = "connecting"
  /\ socks' = [socks EXCEPT ![i].state = "open"]
  /\ UNCHANGED <<ws, timers, mounted, server, pulls, board, ui, obs>>

\* socket i fails to connect (error, then close event) or its open
\* connection is lost (close event)
SockDrop(i) ==
  /\ socks[i].state \in {"connecting", "open"}
  /\ socks' = [socks EXCEPT ![i].state = "closed"]
  /\ timers' = onclose(socks[i], timers)
  /\ UNCHANGED <<ws, mounted, server, pulls, board, ui, obs>>

\* the close event that follows websocket.close()
CloseEvent(i) ==
  /\ socks[i].state = "closing"
  /\ socks' = [socks EXCEPT ![i].state = "closed"]
  /\ timers' = onclose(socks[i], timers)
  /\ UNCHANGED <<ws, mounted, server, pulls, board, ui, obs>>

\* the reconnect timer fires: new WebSocket(WS_URL); setWs(newWebsocket)
ReconnectTimer ==
  /\ timers > 0
  /\ Len(socks) < MaxSocks
  /\ timers' = timers - 1
  /\ socks' = Append(socks, NewWebsocket)
  /\ ws' = IF mounted THEN Len(socks) + 1 ELSE ws
  /\ UNCHANGED <<mounted, server, pulls, board, ui, obs>>

\* the cleanup of the WebSocket effect (Home unmounts): closes the effect's
\* own socket, socks[1], when it is OPEN
Cleanup ==
  /\ mounted
  /\ mounted' = FALSE
  /\ socks' = IF socks[1].state = "open"
              THEN [socks EXCEPT ![1].state = "closing", ![1].explicit = TRUE]
              ELSE socks
  /\ UNCHANGED <<ws, timers, server, pulls, board, ui, obs>>

\* the wire message k arrives on the open socket i
RecvMessage(i, k) ==
  /\ socks[i].state = "open"
  /\ Len(pulls) < MaxInFlight
  /\ pulls' = IF socks[i].wired THEN onmessage(pulls, k) ELSE pulls
  /\ lastEv' = [sock |-> i, kind |-> k, ver |-> server.ver,
                handled |-> socks[i].wired, busy |-> Reloading,
                started |-> Len(pulls') > Len(pulls),
                uncaught |-> socks[i].wired /\ Uncaught(k),
                afterFail |-> pullFailed]
  /\ UNCHANGED <<transport, server, board, ui, lastPull, pullFailed, seen>>

\* ---- the server ----
\* the board changes on the server (a request of this or another client)
ServerChange(e) ==
  /\ server.ver < MaxVer
  /\ server' = [ver |-> server.ver + 1, cols |-> ApplyEdit(server.cols, e)]
  /\ UNCHANGED <<transport, pulls, board, ui, obs>>

\* ---- loadBoard, continued ----
\* the response of GET /api/boards: r = "ok" (a board exists), "empty"
\* (boards.length = 0) or "fail" (the request rejects)
ListRespond(p, r) ==
  /\ pulls[p].pc = "list"
  /\ pulls' = IF r = "ok" THEN [pulls EXCEPT ![p].pc = "snap"]
              ELSE RemoveAt(pulls, p)
  /\ pullFailed' = (pullFailed \/ r # "ok")
  /\ UNCHANGED <<transport, server, board, ui, lastEv, lastPull, seen>>

\* the server reads the board for GET /api/boards/{id}
ServerRead(p) ==
  /\ pulls[p].pc = "snap"
  /\ pulls' = [pulls EXCEPT ![p].pc = "resp", ![p].snap = server]
  /\ UNCHANGED <<transport, server, board, ui, obs>>

\* the snapshot response arrives: setBoard(boardResponse.data)
SnapRespond(p) ==
  /\ pulls[p].pc = "resp"
  /\ pulls' = RemoveAt(pulls, p)
  /\ board' = IF mounted THEN pulls[p].snap ELSE board
  /\ lastPull' = IF mounted THEN pulls[p].snap ELSE lastPull
  /\ seen' = IF board'.ver > seen THEN board'.ver ELSE seen
  /\ UNCHANGED <<transport, server, ui, lastEv, pullFailed>>

\* the snapshot request rejects: the catch block logs, board is kept
SnapFail(p) ==
  /\ pulls[p].pc \in {"snap", "resp"}
  /\ pulls' = RemoveAt(pulls, p)
  /\ board' = board
  /\ pullFailed' = TRUE
  /\ UNCHANGED <<transport, server, ui, lastEv, lastPull, seen>>

\* ---- rendering ----
\* Home renders the board (and so offers the user actions) once board is set
Rendered == mounted /\ board # NotLoaded

\* String.prototype.toLowerCase and includes on the texts of the model
toLowerCase(t) ==
  CASE t = "Fix bug" -> "fix bug"
    [] t = "Write docs" -> "write docs"
    [] t = "Fix docs" -> "fix docs"
    [] t = "BUG" -> "bug"
    [] OTHER -> t
includes(text, q) ==
  \/ q = ""
  \/ text = q
  \/ <<text, q>> \in {<<"fix bug", "bug">>, <<"fix bug", "fix">>,
                      <<"write docs", "docs">>, <<"write docs", "write">>,
                      <<"fix docs", "docs">>, <<"fix docs", "fix">>}

filterCards(cards, q) ==
  IF q = "" THEN cards
  ELSE LET Keep(card) ==
             \/ includes(toLowerCase(card.title), toLowerCase(q))
             \/ /\ card.description # ""
                /\ includes(toLowerCase(card.description), toLowerCase(q))
       IN SelectSeq(cards, Keep)

\* the cards drawn as Draggables, over all columns
Shown(b, q) ==
  UNION {{filterCards(b.cols[c], q)[i] :
            i \in 1..Len(filterCards(b.cols[c], q))} : c \in Cols}

findCard(b, cardId) ==
  IF \E x \in CardsOf(b.cols) : x.id = cardId
  THEN CHOOSE x \in CardsOf(b.cols) : x.id = cardId
  ELSE NullCard

\* ---- the card modal ----
\* loadComments: start of the call, up to the await
loadComments(fs, s, cardId) ==
  Append(fs, [sess |-> s, card |-> cardId, pc |-> "sent", n |-> 0])

\* a click on a card: openCardModal(card); CardModal mounts with the card's
\* fields in its state and its effect calls loadComments
openCardModal(card) ==
  /\ Rendered /\ ~showCardModal
  /\ sess < MaxSessions
  /\ card \in Shown(board, searchQuery)
  /\ selectedCard' = card
  /\ showCardModal' = TRUE
  /\ sess' = sess + 1
  /\ buf' = [title |-> card.title, description |-> card.description,
             priority |-> card.priority]
  /\ newComment' = ""
  /\ comments' = 0
  /\ fetches' = loadComments(fetches, sess + 1, card.id)
  /\ UNCHANGED <<transport, server, pulls, board, searchQuery, serverComments,
                 actions, obs>>

\* Home state after setShowCardModal(false); setSelectedCard(null): the
\* CardModal unmounts and its state is discarded
CloseModal ==
  /\ selectedCard' = NullCard
  /\ showCardModal' = FALSE
  /\ buf' = NoBuf
  /\ newComment' = ""
  /\ comments' = 0
  /\ sess' = sess

onClose ==
  /\ mounted /\ showCardModal
  /\ CloseModal
  /\ UNCHANGED <<transport, server, pulls, board, searchQuery, thread,
                 actions, obs>>

\* typing into the modal's fields
setTitle(t) ==
  /\ mounted /\ showCardModal
  /\ buf' = [buf EXCEPT !.title = t]
  /\ UNCHANGED <<transport, server, pulls, board, searchQuery, selectedCard,
                 showCardModal, sess, newComment, comments, thread, actions,
                 obs>>
setDescription(d) ==
  /\ mounted /\ showCardModal
  /\ buf' = [buf EXCEPT !.description = d]
  /\ UNCHANGED <<transport, server, pulls, board, searchQuery, selectedCard,
                 showCardModal, sess, newComment, comments, thread, actions,
                 obs>>
setPriority(q) ==
  /\ mounted /\ showCardModal
  /\ buf' = [buf EXCEPT !.priority = q]
  /\ UNCHANGED <<transport, server, pulls, board, searchQuery, selectedCard,
                 showCardModal, sess, newComment, comments, thread, actions,
                 obs>>
setNewComment(x) ==
  /\ mounted /\ showCardModal
  /\ newComment' = x
  /\ UNCHANGED <<transport, server, pulls, board, searchQuery, selectedCard,
                 showCardModal, sess, buf, comments, thread, actions, obs>>

\* the server reads the thread for GET /api/cards/{id}/comments
CommentsRead(f) ==
  /\ fetches[f].pc = "sent"
  /\ fetches' = [fetches EXCEPT ![f].pc = "read",
                                ![f].n = serverComments[fetches[f].card]]
  /\ UNCHANGED <<transport, server, pulls, board, searchQuery, modal,
                 serverComments, actions, obs>>

\* the response arrives: setComments(response.data.comments), which only a
\* still mounted CardModal instance sees
CommentsRespond(f) ==
  /\ fetches[f].pc = "read"
  /\ fetches' = RemoveAt(fetches, f)
  /\ comments' = IF mounted /\ showCardModal /\ fetches[f].sess = sess
                 THEN fetches[f].n ELSE comments
  /\ UNCHANGED <<transport, server, pulls, board, searchQuery, selectedCard,
                 showCardModal, sess, buf, newComment, serverComments,
                 actions, obs>>

\* the request rejects: the catch block logs
CommentsFail(f) ==
  /\ fetches' = RemoveAt(fetches, f)
  /\ UNCHANGED <<transport, server, pulls, board, searchQuery, modal,
                 serverComments, actions, obs>>

\* ---- the user actions ----
\* what the promise of an async user action settles to, given whether its
\* request failed: every handler catches the error and logs it
Settles(reqFailed) == "resolved"

\* an action that returns without awaiting a request
Returns(op, threw) ==
  /\ nCalls' = nCalls + 1
  /\ lastRet' = [op |-> op, req |-> "none", threw |-> threw,
                 ret |-> Settles(FALSE)]
  /\ UNCHANGED calls

\* an action that sends the request req and awaits its response; s and
\* cardId are the CardModal instance and card of the call (0 and "" for the
\* actions of Home)
Sends(op, req, s, cardId) ==
  /\ nCalls' = nCalls + 1
  /\ calls' = Append(calls, [op |-> op, req |-> req, sess |-> s,
                             card |-> cardId])
  /\ UNCHANGED lastRet

\* the return value of prompt() when the dialog is cancelled
Cancelled == "<null>"
Prompts == {Cancelled, "", "Ship it"}

createCard(columnId, title) ==
  /\ Rendered /\ nCalls < MaxCalls
  /\ IF title \in {Cancelled, ""}
     THEN Returns("create", FALSE)
     ELSE Sends("create",
                [kind |-> "POST /api/cards",
                 body |-> [column_id |-> columnId, title |-> title,
                           description |-> "", priority |-> "medium",
                           labels |-> <<>>, assigned_to |-> username]],
                0, "")
  /\ UNCHANGED <<transport, server, pulls, board, searchQuery, modal, thread,
                 obs>>

\* (a variant that builds the body from the card the modal was opened with)
Payload_fromModal(card, updates) ==
  [selectedCard EXCEPT !.title = updates.title,
                       !.description = updates.description,
                       !.priority = updates.priority]

\* {column_id: card.column_id, ...card, ...updates}
Payload(card, updates) ==
  [card EXCEPT !.title = updates.title,
               !.description = updates.description,
               !.priority = updates.priority]

\* handleSave: onUpdate(card.id, {title, description, priority})
updateCard(cardId, updates) ==
  /\ mounted /\ showCardModal /\ nCalls < MaxCalls
  /\ LET card == findCard(board, cardId)
     IN IF card = NullCard
        THEN Returns("update", TRUE)
        ELSE Sends("update",
                   [kind |-> "PUT /api/cards/{id}", id |-> cardId,
                    body |-> Payload(card, updates)],
                   sess, cardId)
  /\ UNCHANGED <<transport, server, pulls, board, searchQuery, modal, thread,
                 obs>>

deleteCard(cardId, confirmed) ==
  /\ mounted /\ showCardModal /\ nCalls < MaxCalls
  /\ IF ~confirmed
     THEN Returns("delete", FALSE)
     ELSE Sends("delete", [kind |-> "DELETE /api/cards/{id}", id |-> cardId],
                sess, cardId)
  /\ UNCHANGED <<transport, server, pulls, board, searchQuery, modal, thread,
                 obs>>

\* the search box: onChange={(e) => setSearchQuery(e.target.value)}
setSearchQuery(q) ==
  /\ Rendered
  /\ searchQuery' = q
  /\ UNCHANGED <<transport, server, pulls, board, modal, thread, actions,
                 obs>>

\* the drag results the library can report for the board as it is drawn
DragResults(b, q) ==
  LET drawn(c) == filterCards(b.cols[c], q)
      \* a list offers one place per card it draws and one behind them; the
      \* source list is counted without the dragged card
      Dests(src) ==
        {NoDest} \cup
        UNION {{[droppableId |-> c, index |-> n] :
                  n \in 0..(Len(drawn(c)) - (IF c = src THEN 1 ELSE 0))} :
               c \in Cols}
  IN UNION {{[draggableId |-> drawn(c)[i].id,
              source |-> [droppableId |-> c, index |-> i - 1],
              destination |-> d] : i \in 1..Len(drawn(c)), d \in Dests(c)} :
            c \in Cols}

\* (a variant that sends the index the card was dragged from)
MoveRequest_sourceIndex(result) ==
  [kind |-> "POST /api/cards/move",
   body |-> [card_id |-> result.draggableId,
             target_column_id |-> result.destination.droppableId,
             position |-> result.source.index]]

\* the request onDragEnd posts for a drop with a destination
MoveRequest(result) ==
  [kind |-> "POST /api/cards/move",
   body |-> [card_id |-> result.draggableId,
             target_column_id |-> result.destination.droppableId,
             position |-> result.destination.index]]

\* (a variant that treats a drop without destination as a drop in place)
onDragEnd_dropsInPlace(result) ==
  /\ Rendered /\ nCalls < MaxCalls
  /\ Sends("move",
           MoveRequest([result EXCEPT !.destination =
                          IF result.destination = NoDest THEN result.source
                          ELSE result.destination]),
           0, "")
  /\ UNCHANGED <<transport, server, pulls, board, searchQuery, modal, thread,
                 obs>>

onDragEnd(result) ==
  /\ Rendered /\ nCalls < MaxCalls
  /\ IF result.destination = NoDest
     THEN Returns("move", FALSE)
     ELSE Sends("move", MoveRequest(result), 0, "")
  /\ UNCHANGED <<transport, server, pulls, board, searchQuery, modal, thread,
                 obs>>

\* (a variant that tests the text as typed: if (!newComment) return)
trim_asTyped(x) == x

\* String.prototype.trim on the texts of the model
trim(x) == IF x = "   " THEN "" ELSE x

addComment ==
  /\ mounted /\ showCardModal /\ nCalls < MaxCalls
  /\ IF trim(newComment) = ""
     THEN Returns("comment", FALSE)
     ELSE Sends("comment",
                [kind |-> "POST /api/comments",
                 body |-> [card_id |-> selectedCard.id, author |-> username,
                           text |-> newComment]],
                sess, selectedCard.id)
  /\ UNCHANGED <<transport, server, pulls, board, searchQuery, modal, thread,
                 obs>>

\* (a variant in which a successful move is applied to the store locally)
StoreAfter_optimistic(call, b) ==
  IF call.op = "move"
  THEN [b EXCEPT !.cols =
          ApplyEdit(b.cols,
                    [e |-> "move", id |-> call.req.body.card_id,
                     col |-> call.req.body.target_column_id,
                     pos |-> call.req.body.position, title |-> ""])]
  ELSE b

\* the board state after the success path of a user action: none of
\* createCard, updateCard, deleteCard, onDragEnd, addComment calls setBoard
StoreAfter(call, b) == b

\* the request of the user action calls[c] succeeds
RespondOk(c) ==
  LET call == calls[c] IN
  /\ calls' = RemoveAt(calls, c)
  /\ board' = StoreAfter(call, board)
  /\ lastRet' = [op |-> call.op, req |-> "ok", threw |-> FALSE,
                 ret |-> Settles(FALSE)]
  /\ CASE call.op \in {"update", "delete"} ->
            \* setShowCardModal(false); setSelectedCard(null)
            /\ IF mounted THEN CloseModal ELSE UNCHANGED modal
            /\ UNCHANGED thread
       [] call.op = "comment" ->
            \* the server has stored the comment; setNewComment("") reaches
            \* the CardModal instance that posted; loadComments()
            /\ serverComments' =
                 [serverComments EXCEPT ![call.card] = @ + 1]
            /\ newComment' = IF mounted /\ showCardModal /\ call.sess = sess
                             THEN "" ELSE newComment
            /\ fetches' = loadComments(fetches, call.sess, call.card)
            /\ UNCHANGED <<selectedCard, showCardModal, sess, buf, comments>>
       [] OTHER -> UNCHANGED <<modal, thread>>
  /\ UNCHANGED <<transport, server, pulls, searchQuery, nCalls, obs>>

\* (a variant that closes the modal whether or not the request succeeded)
RespondFail_closes(c) ==
  /\ calls' = RemoveAt(calls, c)
  /\ lastRet' = [op |-> calls[c].op, req |-> "fail", threw |-> FALSE,
                 ret |-> Settles(TRUE)]
  /\ IF calls[c].op \in {"update", "delete"} THEN CloseModal
     ELSE UNCHANGED modal
  /\ UNCHANGED <<transport, server, pulls, board, searchQuery, thread,
                 nCalls, obs>>

\* the request of the user action calls[c] fails: the catch block logs
RespondFail(c) ==
  /\ calls' = RemoveAt(calls, c)
  /\ lastRet' = [op |-> calls[c].op, req |-> "fail", threw |-> FALSE,
                 ret |-> Settles(TRUE)]
  /\ UNCHANGED <<transport, server, pulls, board, searchQuery, modal, thread,
                 nCalls, obs>>

Next ==
  \/ \E i \in 1..Len(socks) : SockOpen(i)
  \/ \E i \in 1..Len(socks) : SockDrop(i)
  \/ \E i \in 1..Len(socks) : CloseEvent(i)
  \/ ReconnectTimer
  \/ Cleanup
  \/ \E i \in 1..Len(socks), k \in Wire : RecvMessage(i, k)
  \/ ServerChange(Touch)
  \/ \E p \in 1..Len(pulls), r \in {"ok", "empty", "fail"} : ListRespond(p, r)
  \/ \E p \in 1..Len(pulls) : ServerRead(p)
  \/ \E p \in 1..Len(pulls) : SnapRespond(p)
  \/ \E p \in 1..Len(pulls) : SnapFail(p)

Spec == Init /\ [][Next]_vars

\* the client in use: the first connection stays up, change events arrive
\* between pulls, the board is edited on the server, and the user works on
\* the board and in the card modal
UIEdits ==
  {Touch,
   [e |-> "move", id |-> "c1", col |-> "Doing", pos |-> 0, title |-> ""],
   [e |-> "delete", id |-> "c2", col |-> "", pos |-> 0, title |-> ""]}

UINext ==
  \/ \E i \in 1..Len(socks) : SockOpen(i)
  \/ \E i \in 1..Len(socks) : pulls = <<>> /\ RecvMessage(i, "card_moved")
  \/ \E e \in Edits(server.cols) \cap UIEdits : ServerChange(e)
  \/ \E p \in 1..Len(pulls), r \in {"ok", "empty", "fail"} : ListRespond(p, r)
  \/ \E p \in 1..Len(pulls) : ServerRead(p)
  \/ \E p \in 1..Len(pulls) : SnapRespond(p)
  \/ \E p \in 1..Len(pulls) : SnapFail(p)
  \/ \E card \in Shown(board, searchQuery) : openCardModal(card)
  \/ onClose
  \/ \E x \in {"LGTM"} : setNewComment(x)
  \/ \E f \in 1..Len(fetches) : CommentsRead(f)
  \/ \E f \in 1..Len(fetches) : CommentsRespond(f)
  \/ \E f \in 1..Len(fetches) : CommentsFail(f)
  \/ \E c \in Cols, t \in Prompts : createCard(c, t)
  \/ updateCard(selectedCard.id, buf)
  \/ \E b \in BOOLEAN : deleteCard(selectedCard.id, b)
  \/ \E r \in DragResults(board, searchQuery) : onDragEnd(r)
  \/ addComment
  \/ \E c \in 1..Len(calls) : RespondOk(c)
  \/ \E c \in 1..Len(calls) : RespondFail(c)

UISpec == Init /\ [][UINext]_vars

\* saving and deleting in the card modal: the board is loaded and reloaded
\* between edits of the server, the user edits the modal's fields, saves and
\* deletes
SessionEdits ==
  {[e |-> "move", id |-> "c1", col |-> "Doing", pos |-> 0, title |-> ""],
   [e |-> "delete", id |-> "c1", col |-> "", pos |-> 0, title |-> ""]}

EditNext ==
  \/ \E i \in 1..Len(socks) : SockOpen(i)
  \/ \E i \in 1..Len(socks) : pulls = <<>> /\ RecvMessage(i, "card_updated")
  \/ \E e \in Edits(server.cols) \cap SessionEdits : ServerChange(e)
  \/ \E p \in 1..Len(pulls) : ListRespond(p, "ok")
  \/ \E p \in 1..Len(pulls) : ServerRead(p)
  \/ \E p \in 1..Len(pulls) : SnapRespond(p)
  \/ \E card \in Shown(board, searchQuery) : openCardModal(card)
  \/ onClose
  \/ \E t \in {"Ship it"} : setTitle(t)
  \/ \E d \in {"steps"} : setDescription(d)
  \/ \E q \in {"high"} : setPriority(q)
  \/ \E f \in 1..Len(fetches) : CommentsRead(f)
  \/ \E f \in 1..Len(fetches) : CommentsRespond(f)
  \/ updateCard(selectedCard.id, buf)
  \/ \E b \in BOOLEAN : deleteCard(selectedCard.id, b)
  \/ \E c \in 1..Len(calls) : RespondOk(c)
  \/ \E c \in 1..Len(calls) : RespondFail(c)

EditSpec == Init /\ [][EditNext]_vars

\* commenting and creating cards: the board is loaded once, the user types
\* and posts comments and adds cards, and every comment fetch is answered
\* with the list
CommentNext ==
  \/ \E p \in 1..Len(pulls) : ListRespond(p, "ok")
  \/ \E p \in 1..Len(pulls) : ServerRead(p)
  \/ \E p \in 1..Len(pulls) : SnapRespond(p)
  \/ \E card \in Shown(board, searchQuery) : openCardModal(card)
  \/ onClose
  \/ \E x \in {"", "   ", "LGTM"} : setNewComment(x)
  \/ \E f \in 1..Len(fetches) : CommentsRead(f)
  \/ \E f \in 1..Len(fetches) : CommentsRespond(f)
  \/ \E c \in Cols, t \in Prompts : createCard(c, t)
  \/ addComment
  \/ \E c \in 1..Len(calls) : RespondOk(c)
  \/ \E c \in 1..Len(calls) : RespondFail(c)

CommentSpec == Init /\ [][CommentNext]_vars

\* dragging on a loaded board of three cards while the search box is used:
\* the board is any arrangement of the cards over the columns, the user
\* types a query, drags and drops, and the move requests are answered
DragTitles == [c1 |-> "Fix bug", c2 |-> "Write docs", c3 |-> "Fix docs"]
Queries == {"", "docs", "fix"}
Orders ==
  {p \in [1..3 -> DOMAIN DragTitles] : \A i, j \in 1..3 : p[i] = p[j] => i = j}
Arrangements ==
  {[c \in Cols |->
      IF c = "Todo"
      THEN [i \in 1..k |-> Card(p[i], "Todo", DragTitles[p[i]])]
      ELSE [i \in 1..(3 - k) |->
              Card(p[k + i], "Doing", DragTitles[p[k + i]])]] :
     p \in Orders, k \in 0..3}

DragInit ==
  /\ socks = <<[state |-> "connecting", wired |-> TRUE, explicit |-> FALSE]>>
  /\ ws = 1
  /\ timers = 0
  /\ mounted = TRUE
  /\ \E a \in Arrangements : server = [ver |-> 1, cols |-> a]
  /\ pulls = <<>>
  /\ board = server
  /\ searchQuery = ""
  /\ selectedCard = NullCard
  /\ showCardModal = FALSE
  /\ sess = 0
  /\ buf = NoBuf
  /\ newComment = ""
  /\ comments = 0
  /\ fetches = <<>>
  /\ serverComments = [c \in CardIds |-> 0]
  /\ calls = <<>>
  /\ nCalls = 0
  /\ lastRet = NoRet
  /\ lastEv = NoEvent
  /\ lastPull = board
  /\ pullFailed = FALSE
  /\ seen = 1

DragNext ==
  \/ \E q \in Queries : setSearchQuery(q)
  \/ \E r \in DragResults(board, searchQuery) : onDragEnd(r)
  \/ \E c \in 1..Len(calls) : RespondOk(c)
  \/ \E c \in 1..Len(calls) : RespondFail(c)

DragSpec == DragInit /\ [][DragNext]_vars

\* the network answers every request in flight (with a result or an error)
PullStep ==
  \E p \in 1..Len(pulls) :
    \/ \E r \in {"ok", "empty", "fail"} : ListRespond(p, r)
    \/ ServerRead(p)
    \/ SnapRespond(p)
    \/ SnapFail(p)
FairSpec == Spec /\ WF_vars(PullStep)

\* ---- claims ----

\* C1: a recognized change event that reaches the handler starts a pull
\* exactly when no reconciliation pull is in flight (so the pulls started
\* are as many as the events that arrived while none was in flight); an
\* event arriving while Reloading starts no additional pull.
C1_Coalescing ==
  (lastEv.handled /\ lastEv.kind \in Recognized)
    => (lastEv.started <=> ~lastEv.busy)

\* C2: a pull that completes never replaces the board snapshot with one
\* read from the server earlier than the snapshot the store already holds.
C2_NoStaleReplace == [][board'.ver >= board.ver]_vars

\* C3: a recognized change event received on a reconnected connection is
\* delivered to the event handler and leads to a reconciliation pull (one
\* it starts, or the one in flight), as on the first connection.
C3_ReconnectedDelivers ==
  (lastEv.sock > 1 /\ lastEv.kind \in Recognized)
    => (lastEv.handled /\ (lastEv.started \/ lastEv.busy))

\* C4: while the client is not torn down, whenever no connection is open or
\* being opened exactly one reconnect attempt is pending, also after the
\* loss of a connection that a reconnect created.
C4_AlwaysRetries ==
  (mounted /\ \A i \in 1..Len(socks) : socks[i].state = "closed")
    => timers = 1

\* C5: the reopening of the channel after a reconnect (a reconnected socket
\* goes from connecting to open) starts exactly one full snapshot pull.
C5_PullOnReopen ==
  [][\A i \in 2..Len(socks) :
       (socks[i].state = "connecting" /\ socks'[i].state = "open")
         => Len(pulls') = Len(pulls) + 1]_vars

\* C6: once the client is torn down (explicit close of the channel) no
\* reconnect timer is pending and no new connection is created, in
\* whichever connection state the teardown happened.
C6_CloseNoReconnect ==
  [][~mounted' => (timers' = 0 /\ (~mounted => Len(socks') = Len(socks)))]_vars

\* C9: a recognized change event received on an open connection, when the
\* server state has version v, is followed by a pull that completes and puts a
\* snapshot of version v or later into the store (provided pulls succeed and
\* the client is not torn down).
C9_EventuallyVisible ==
  \A v \in 1..MaxVer :
    (lastEv.kind \in Recognized /\ lastEv.ver = v)
      ~> (seen >= v \/ pullFailed \/ ~mounted)

\* the same on the first connection only
FirstConnectionVisible ==
  \A v \in 1..MaxVer :
    (lastEv.kind \in Recognized /\ lastEv.ver = v /\ lastEv.sock = 1)
      ~> (seen >= v \/ pullFailed \/ ~mounted)

\* C7: the store holds the not-yet-loaded value or exactly the snapshot that
\* the last successfully completed pull delivered; no user action (create,
\* update, delete, move, comment), succeeding or failing, writes it.
C7_SingleWriter == board = lastPull

\* a second pull has replaced the store and a move request has succeeded
C7_Witness ==
  /\ board.ver = 2 /\ board = lastPull
  /\ lastRet.op = "move" /\ lastRet.req = "ok"

\* C8: a drop with a destination sends exactly one move request, carrying
\* the dragged card's id, the destination column's id and the destination
\* index, and neither the drop nor the response of its request changes the
\* store.
C8_MoveSendsIntent ==
  [][/\ \A r \in DragResults(board, searchQuery) :
          (r.destination # NoDest /\ onDragEnd(r))
            => /\ calls' = Append(calls,
                    [op |-> "move",
                     req |-> [kind |-> "POST /api/cards/move",
                              body |-> [card_id |-> r.draggableId,
                                        target_column_id |->
                                          r.destination.droppableId,
                                        position |-> r.destination.index]],
                     sess |-> 0, card |-> ""])
               /\ board' = board
     /\ \A c \in 1..Len(calls) :
          (calls[c].op = "move" /\ (RespondOk(c) \/ RespondFail(c)))
            => board' = board]_vars

\* the move of the scenario, move("c1", "Doing", 0), is awaiting its response
C8_Witness ==
  \E c \in 1..Len(calls) :
    /\ calls[c].op = "move"
    /\ calls[c].req.body =
         [card_id |-> "c1", target_column_id |-> "Doing", position |-> 0]
    /\ board # NotLoaded

\* C10: a user action whose request failed settles as an error for its
\* caller.
C10_FailureReported == lastRet.req = "fail" => lastRet.ret = "rejected"

\* C11: a malformed wire message that reaches the message handler raises no
\* uncaught error out of it and starts no pull (and the handler goes on to
\* process later messages).
C11_MalformedDropped ==
  (lastEv.kind \in Malformed /\ lastEv.handled)
    => (~lastEv.uncaught /\ ~lastEv.started)

\* C12: a pull that fails (at the board-list request or at the snapshot
\* request) leaves the store as it was, and a recognized change event that
\* reaches the handler after a pull has failed starts a new pull.
C12_FailedPullNonFatal ==
  [][/\ \A p \in 1..Len(pulls) :
          (ListRespond(p, "fail") \/ SnapFail(p)) => board' = board
     /\ (lastEv'.afterFail /\ lastEv'.handled /\ lastEv'.kind \in Recognized)
          => lastEv'.started]_vars

\* after a failed pull the store still holds a snapshot, and a later event
\* has started the pull now in flight
C12_Witness ==
  /\ board # NotLoaded /\ pullFailed
  /\ lastEv.afterFail /\ lastEv.handled /\ lastEv.started
  /\ \E p \in 1..Len(pulls) : pulls[p].origin = "event"

\* C13: addComment with empty or whitespace-only text sends no request and
\* leaves the comment list (and the fetches of it) unchanged, and createCard
\* with an empty title sends no request.
C13_ValidatedBeforeSend ==
  [][/\ (newComment \in {"", "   "} /\ addComment)
          => (calls' = calls /\ comments' = comments /\ fetches' = fetches)
     /\ \A c \in Cols :
          createCard(c, "") => calls' = calls]_vars

\* addComment has returned on whitespace-only text without a request
C13_Witness ==
  /\ showCardModal /\ newComment = "   "
  /\ lastRet.op = "comment" /\ lastRet.req = "none"
  /\ calls = <<>>

\* C14: save and delete leave the modal open while their request is awaited
\* and send at most one request; the success of the request closes the modal;
\* its failure leaves the modal open with the edit buffer as it was and sends
\* nothing again; delete without confirmation sends no request.
C14_ClosedIffSucceeded ==
  [][/\ (updateCard(selectedCard.id, buf)
           \/ \E b \in BOOLEAN : deleteCard(selectedCard.id, b))
          => /\ showCardModal' /\ buf' = buf
             /\ Len(calls') <= Len(calls) + 1
     /\ deleteCard(selectedCard.id, FALSE) => calls' = calls
     /\ \A c \in 1..Len(calls) :
          calls[c].op \in {"update", "delete"} =>
            /\ RespondOk(c) => (~showCardModal' /\ calls' = RemoveAt(calls, c))
            /\ RespondFail(c) =>
                 /\ showCardModal' = showCardModal /\ buf' = buf
                 /\ selectedCard' = selectedCard
                 /\ calls' = RemoveAt(calls, c)]_vars

\* a save has failed: the modal is still open with the edited title
C14_Witness ==
  /\ lastRet.op = "update" /\ lastRet.req = "fail"
  /\ showCardModal /\ buf.title = "Ship it"
  /\ calls = <<>>

\* C16: a drop with no destination sends no request and leaves the store
\* unchanged.
C16_CancelledDragNoop ==
  [][\A r \in DragResults(board, searchQuery) :
       (r.destination = NoDest /\ onDragEnd(r))
         => (calls' = calls /\ board' = board)]_vars

\* onDragEnd has returned on a drop without destination
C16_Witness ==
  /\ lastRet.op = "move" /\ lastRet.req = "none"
  /\ calls = <<>> /\ board # NotLoaded

\* C15: a message whose type is not one of the six recognized kinds starts
\* no pull and leaves the pulls in flight and the store as they were.
C15_UnrecognizedIgnored ==
  [][\A i \in 1..Len(socks), k \in Unrecognized :
       RecvMessage(i, k) => (pulls' = pulls /\ board' = board)]_vars

\* an unrecognized message has reached the handler of a loaded, idle client
C15_Witness ==
  /\ lastEv.kind \in Unrecognized /\ lastEv.handled
  /\ pulls = <<>> /\ board # NotLoaded

\* C17: a save of a card that is absent from the current snapshot sends no
\* update request, settles as an error for its caller and closes the
\* session.
C17_SaveAbsentAborts ==
  [][(/\ board # NotLoaded
      /\ \A x \in CardsOf(board.cols) : x.id # selectedCard.id
      /\ updateCard(selectedCard.id, buf))
       => /\ calls' = calls
          /\ lastRet'.ret = "rejected"
          /\ ~showCardModal']_vars

\* C18: the body of a save is the card as the current snapshot has it, with
\* the title, description and priority of the modal's fields; in particular
\* its column id is the current snapshot's, not the one the modal was opened
\* with.
C18_PayloadFromSnapshot ==
  [][\A cur \in CardsOf(board.cols) :
       (cur.id = selectedCard.id /\ updateCard(selectedCard.id, buf))
         => calls' = Append(calls,
              [op |-> "update",
               req |-> [kind |-> "PUT /api/cards/{id}", id |-> cur.id,
                        body |-> [id |-> cur.id,
                                  column_id |-> cur.column_id,
                                  title |-> buf.title,
                                  description |-> buf.description,
                                  priority |-> buf.priority]],
               sess |-> sess, card |-> cur.id])]_vars

\* a save is awaited for a card that was moved to Doing, and reloaded, after
\* the modal was opened on it in Todo
C18_Witness ==
  /\ showCardModal
  /\ selectedCard # NullCard
  /\ \E c \in 1..Len(calls) :
    /\ calls[c].op = "update"
    /\ selectedCard.column_id = "Todo"
    /\ calls[c].req.body.column_id = "Doing"
    /\ calls[c].req.body.title = "Ship it"

\* C19: when addComment has succeeded and no comment fetch of the session is
\* in flight any more, the modal's comment list holds the comments of the
\* card, the new one included.
C19_ListHasNewComment ==
  (/\ showCardModal /\ fetches = <<>>
   /\ lastRet.op = "comment" /\ lastRet.req = "ok")
    => (comments >= 1 /\ comments = serverComments[selectedCard.id])

\* C20: the position sent in a move request is an index of the complete
\* card sequence of the target column in the current snapshot (the dragged
\* card not counted) that lies behind the drawn card the drop followed and
\* not behind the drawn card the drop preceded, whatever the search filter
\* hides.
C20_PositionInFullColumn ==
  [][\A r \in DragResults(board, searchQuery) :
       LET c == r.destination.droppableId
           n == r.destination.index
           Others(cards) == SelectSeq(cards, LAMBDA x : x.id # r.draggableId)
           rest == Others(filterCards(board.cols[c], searchQuery))
           full == Others(board.cols[c])
           Place(x) == CHOOSE i \in 1..Len(full) : full[i].id = x.id
           lo == IF n = 0 THEN 0 ELSE Place(rest[n])
           hi == IF n = Len(rest) THEN Len(full) ELSE Place(rest[n + 1]) - 1
       IN (r.destination # NoDest /\ onDragEnd(r))
            => /\ lo <= calls'[Len(calls')].req.body.position
               /\ calls'[Len(calls')].req.body.position <= hi]_vars
====
